---- MODULE Spec2Model ----
(***************************************************************************)
(* State-machine model of PdfPageManipulator (PdfPageManipulator.py).      *)
(*                                                                         *)
(* Python values are encoded as follows.                                   *)
(*   - a list is the record [none |-> FALSE, items |-> <<...>>];           *)
(*     None is the record [none |-> TRUE, items |-> <<>>];                 *)
(*   - the page object PdfReader yields for 0-based position k of the file *)
(*     is the integer -MaxNeg - 1 - k, below every integer argument a call *)
(*     is given: page objects are pairwise distinct and no page object     *)
(*     equals an integer page number;                                      *)
(*   - an exception is the name of its class, "None" meaning no exception. *)
(* 0-based Python positions are kept in the operators' arguments; TLA+     *)
(* sequences are 1-based, so position i is items[i + 1].                   *)
(***************************************************************************)
EXTENDS Integers, Sequences, FiniteSets, TLC

\* Largest number of pages of the file read by load_pdf.
MaxPages == 3
\* Integer arguments (page numbers, range ends) are drawn from -MaxNeg..MaxPages.
MaxNeg == 1
\* Longest page_list argument.
MaxListLen == 2

\* written is the page list last handed to self.writer to be written to a
\* file, None while nothing has been handed to it.
VARIABLES pages, page_length, original_pages, even_pages, odd_pages,
          last_method, loaded, call, error, written

vars == <<pages, page_length, original_pages, even_pages, odd_pages,
          last_method, loaded, call, error, written>>

-----------------------------------------------------------------------------
\* Python values

None == [none |-> TRUE, items |-> <<>>]
PyList(s) == [none |-> FALSE, items |-> s]
NoError == "None"

\* PdfActions members (the enum's values)
INSERT_FIRST == "inser_first"
INSERT_LAST == "inser_last"
ADD_AFTER_PAGE == "add_after_page"
ADD_BLANK == "add_blank"
EXTRACT_PAGES == "extract_pages"
EXTRACT_RANGE == "extract_range"
EXTRACT_EVENS == "extract_evens"
EXTRACT_ODDS == "extract_odds"
EXTRACT_EVEN_ODD_AND_SAVE == "extract_even_odd_and_save"
REMOVE_FIRST_PAGE == "remove_first_page"
REMOVE_LAST_PAGE == "remove_last_page"
REMOVE_PAGES == "remoe_pages"

\* list(reader.pages) for a file of n pages: one fresh page object per position.
ReaderPages(n) == [k \in 1..n |-> (-MaxNeg) - k]

\* page == n for a page object and an int page number
PageEqualsInt(page, n) == page = n

\* x in lst, for a page object x and a list of ints
PageInIntList(page, lst) == \E j \in 1..Len(lst) : PageEqualsInt(page, lst[j])

\* i in lst, for an int i and a list of ints
IntInList(i, lst) == \E j \in 1..Len(lst) : lst[j] = i

Min(S) == CHOOSE m \in S : \A o \in S : m <= o

RECURSIVE TakeAscending(_, _)
\* the items of s at the 1-based indices I, in ascending index order
TakeAscending(s, I) ==
    IF I = {} THEN <<>>
    ELSE LET m == Min(I) IN <<s[m]>> \o TakeAscending(s, I \ {m})

\* [result for i, result in enumerate(s) if keep[i]], for keep the value of
\* the condition at each 0-based position i
Comprehension(s, keep) ==
    TakeAscending(s, {i \in 1..Len(s) : keep[i - 1]})

\* the 0-based positions enumerate(s) yields
Positions(s) == 0..(Len(s) - 1)

\* Python's clamping of a slice bound b for a list of length n
SliceBound(b, n) ==
    IF b < 0 THEN (IF b + n < 0 THEN 0 ELSE b + n)
    ELSE (IF b > n THEN n ELSE b)

\* s[a:b]
PySlice(s, a, b) ==
    LET lo == SliceBound(a, Len(s))
        hi == SliceBound(b, Len(s))
    IN  IF lo < hi THEN SubSeq(s, lo + 1, hi) ELSE <<>>

\* s[a:]
PySliceFrom(s, a) == PySlice(s, a, Len(s))

\* s[:b]
PySliceTo(s, b) == PySlice(s, 0, b)

-----------------------------------------------------------------------------
\* Private methods.  A method that can raise returns [exc, ...]; the instance
\* fields it assigns are returned in the record self.

Self == [pages |-> pages, page_length |-> page_length, last_method |-> last_method]

\* _op_insert_at: the body is `pass`, so the call returns None
_op_insert_at(self, index, use_buffer) == [exc |-> NoError, val |-> None]

\* _op_even_odd_and_save: the body is `pass`, so the call returns None
_op_even_odd_and_save(self) == [exc |-> NoError, val |-> None]

\* _op_update_pages_and_its_len: self.pages is assigned first, then len() of
\* it is taken; len(None) raises TypeError after the assignment of self.pages
_op_update_pages_and_its_len(self, new_pages) ==
    IF new_pages.none
    THEN [exc |-> "TypeError",
          self |-> [self EXCEPT !.pages = new_pages]]
    ELSE [exc |-> NoError,
          self |-> [self EXCEPT !.pages = new_pages,
                                !.page_length = Len(new_pages.items)]]

\* the lambdas of the operations table
\* kw_args["index"] raises KeyError when the caller passed no index
OpInsert(self, kw_args, use_buffer) ==
    IF "index" \in DOMAIN kw_args
    THEN _op_insert_at(self, kw_args["index"], use_buffer)
    ELSE [exc |-> "KeyError", val |-> None]

OpExtractPages(self, kw_args) ==
    LET keep == [i \in Positions(self.pages.items) |->
                    PageInIntList(self.pages.items[i + 1], kw_args["page_list"].items)]
    IN  IF self.pages.none THEN [exc |-> "TypeError", val |-> None]
        ELSE IF self.pages.items # <<>> /\ kw_args["page_list"].none
             THEN [exc |-> "TypeError", val |-> None]
        ELSE [exc |-> NoError, val |-> PyList(Comprehension(self.pages.items, keep))]

OpExtractRange(self, kw_args) ==
    IF self.pages.none THEN [exc |-> "TypeError", val |-> None]
    ELSE [exc |-> NoError,
          val |-> PyList(PySlice(self.pages.items, kw_args["from_page"], kw_args["to_page"]))]

OpExtractEvens(self) ==
    LET keep == [i \in Positions(self.pages.items) |-> i % 2 = 0]
    IN  IF self.pages.none THEN [exc |-> "TypeError", val |-> None]
        ELSE [exc |-> NoError, val |-> PyList(Comprehension(self.pages.items, keep))]

\* as OpExtractOdds, keeping the positions i with i % 2 == 0
OpExtractOdds_wrong_parity(self) ==
    LET keep == [i \in Positions(self.pages.items) |-> i % 2 = 0]
    IN  IF self.pages.none THEN [exc |-> "TypeError", val |-> None]
        ELSE [exc |-> NoError, val |-> PyList(Comprehension(self.pages.items, keep))]

OpExtractOdds(self) ==
    LET keep == [i \in Positions(self.pages.items) |-> i % 2 # 0]
    IN  IF self.pages.none THEN [exc |-> "TypeError", val |-> None]
        ELSE [exc |-> NoError, val |-> PyList(Comprehension(self.pages.items, keep))]

OpRemoveFirstPage(self) ==
    IF self.pages.none THEN [exc |-> "TypeError", val |-> None]
    ELSE [exc |-> NoError, val |-> PyList(PySliceFrom(self.pages.items, 1))]

OpRemoveLastPage(self) ==
    IF self.pages.none THEN [exc |-> "TypeError", val |-> None]
    ELSE [exc |-> NoError, val |-> PyList(PySliceTo(self.pages.items, -1))]

\* as OpRemovePages, keeping the listed positions instead of the others
OpRemovePages_keeps_listed(self, kw_args) ==
    LET keep == [i \in Positions(self.pages.items) |->
                    IntInList(i, kw_args["page_list"].items)]
    IN  IF self.pages.none THEN [exc |-> "TypeError", val |-> None]
        ELSE IF self.pages.items # <<>> /\ kw_args["page_list"].none
             THEN [exc |-> "TypeError", val |-> None]
        ELSE [exc |-> NoError, val |-> PyList(Comprehension(self.pages.items, keep))]

OpRemovePages(self, kw_args) ==
    LET keep == [i \in Positions(self.pages.items) |->
                    ~IntInList(i, kw_args["page_list"].items)]
    IN  IF self.pages.none THEN [exc |-> "TypeError", val |-> None]
        ELSE IF self.pages.items # <<>> /\ kw_args["page_list"].none
             THEN [exc |-> "TypeError", val |-> None]
        ELSE [exc |-> NoError, val |-> PyList(Comprehension(self.pages.items, keep))]

\* operations[action]()
operations(self, action, use_buffer, kw_args) ==
    CASE action \in {INSERT_FIRST, INSERT_LAST, ADD_AFTER_PAGE, ADD_BLANK}
                                            -> OpInsert(self, kw_args, use_buffer)
      [] action = EXTRACT_PAGES             -> OpExtractPages(self, kw_args)
      [] action = EXTRACT_RANGE             -> OpExtractRange(self, kw_args)
      [] action = EXTRACT_EVENS             -> OpExtractEvens(self)
      [] action = EXTRACT_ODDS              -> OpExtractOdds(self)
      [] action = EXTRACT_EVEN_ODD_AND_SAVE -> _op_even_odd_and_save(self)
      [] action = REMOVE_FIRST_PAGE         -> OpRemoveFirstPage(self)
      [] action = REMOVE_LAST_PAGE          -> OpRemoveLastPage(self)
      [] action = REMOVE_PAGES              -> OpRemovePages(self, kw_args)
      [] OTHER                              -> [exc |-> "ValueError", val |-> None]

\* __dispatch_action: run the operation, store its result, then record the
\* action; an exception leaves whatever was assigned before it was raised
__dispatch_action(self, action, use_buffer, kw_args) ==
    LET new_pages == operations(self, action, use_buffer, kw_args)
        updated == _op_update_pages_and_its_len(self, new_pages.val)
    IN  IF new_pages.exc # NoError THEN [exc |-> new_pages.exc, self |-> self]
        ELSE IF updated.exc # NoError THEN updated
        ELSE [exc |-> NoError, self |-> [updated.self EXCEPT !.last_method = action]]

-----------------------------------------------------------------------------
\* Arguments of the public methods

IntArgs == (-MaxNeg)..MaxPages

\* the list elements extract_range reads: page_list[0] and page_list[1]
RangeEnds == 2

\* the lists of ints of length at most n
IntLists(n) == {PyList(l) : l \in UNION {[1..k -> IntArgs] : k \in 0..n}}

\* a page_list argument: None, or a list of at most MaxListLen ints
PageListArgs == {None} \cup IntLists(MaxListLen)

\* a page_list argument of extract_range: None, or a list of at most the two
\* ints the method reads
RangeArgs == {None} \cup IntLists(RangeEnds)

\* an optional int argument: None or an int
OptIntArgs == {None} \cup {PyList(<<n>>) : n \in IntArgs}

\* what is kept of an optional or list argument in `call`: whether it was
\* None, an empty list or a list with items
ArgKind(arg) ==
    IF arg.none THEN "None" ELSE IF arg.items = <<>> THEN "[]" ELSE "[...]"

\* the record kept in `call`: which public method ran last, and on what kind
\* of argument
Call(op, arg) == [op |-> op, arg |-> ArgKind(arg)]

\* the method stored what the private call left in self and ended with r.exc
Finish(r, c) ==
    /\ pages' = r.self.pages
    /\ page_length' = r.self.page_length
    /\ last_method' = r.self.last_method
    /\ error' = r.exc
    /\ call' = c
    /\ UNCHANGED <<original_pages, even_pages, odd_pages, loaded, written>>

\* the method raised exc before it assigned anything
Raise(exc, c) ==
    /\ error' = exc
    /\ call' = c
    /\ UNCHANGED <<pages, page_length, original_pages, even_pages, odd_pages,
                   last_method, loaded, written>>

-----------------------------------------------------------------------------
\* Construction and the public methods.  use_buffer is only passed on to
\* _op_insert_at, which does not read it; the methods are called with its
\* default, True.

\* use_buffer: bool = True
DefaultUseBuffer == TRUE

Init ==
    /\ pages = PyList(<<>>)
    /\ page_length = 0
    /\ original_pages = PyList(<<>>)
    /\ even_pages = PyList(<<>>)
    /\ odd_pages = PyList(<<>>)
    /\ written = None
    /\ last_method = "None"
    /\ loaded = FALSE
    /\ call = Call("__init__", None)
    /\ error = NoError

\* load_pdf: PdfReader raises before anything is assigned when the file is
\* missing or is not a PDF (reader names the exception); otherwise the
\* file's n pages are read
load_pdf(n, reader) ==
    IF reader # NoError
    THEN Raise(reader, Call("load_pdf", None))
    ELSE /\ pages' = PyList(ReaderPages(n))
         /\ page_length' = Len(pages'.items)
         /\ original_pages' = pages'
         /\ loaded' = TRUE
         /\ error' = NoError
         /\ call' = Call("load_pdf", None)
         /\ UNCHANGED <<even_pages, odd_pages, last_method, written>>

insert_first ==
    LET index == 0
    IN  Finish(__dispatch_action(Self, INSERT_FIRST, DefaultUseBuffer, [index |-> index]),
               Call("insert_first", None))

\* len(self.pages) raises TypeError when self.pages is None
insert_last ==
    IF pages.none
    THEN Raise("TypeError", Call("insert_last", None))
    ELSE LET index == Len(pages.items)
         IN  Finish(__dispatch_action(Self, INSERT_LAST, DefaultUseBuffer, [index |-> index]),
                    Call("insert_last", None))

add_after_page(page_number) ==
    LET index == page_number
    IN  Finish(__dispatch_action(Self, ADD_AFTER_PAGE, DefaultUseBuffer, [index |-> index]),
               Call("add_after_page", PyList(<<page_number>>)))

add_blank(after_page) ==
    Finish(__dispatch_action(Self, ADD_BLANK, DefaultUseBuffer, [after_page |-> after_page]),
           Call("add_blank", after_page))

extract_pages(page_list) ==
    Finish(__dispatch_action(Self, EXTRACT_PAGES, DefaultUseBuffer, [page_list |-> page_list]),
           Call("extract_pages", page_list))

\* page_list[0] and page_list[1] raise TypeError on None and IndexError on a
\* list shorter than two, before the dispatch
extract_range(page_list) ==
    IF page_list.none
    THEN Raise("TypeError", Call("extract_range", page_list))
    ELSE IF Len(page_list.items) < RangeEnds
    THEN Raise("IndexError", Call("extract_range", page_list))
    ELSE LET from_page == page_list.items[1]
             to_page == page_list.items[2]
         IN  Finish(__dispatch_action(Self, EXTRACT_RANGE, DefaultUseBuffer,
                                      [from_page |-> from_page, to_page |-> to_page]),
                    Call("extract_range", page_list))

extract_evens ==
    Finish(__dispatch_action(Self, EXTRACT_EVENS, DefaultUseBuffer, <<>>),
           Call("extract_evens", None))

extract_odds ==
    Finish(__dispatch_action(Self, EXTRACT_ODDS, DefaultUseBuffer, <<>>),
           Call("extract_odds", None))

extract_even_odd_and_save ==
    Finish(__dispatch_action(Self, EXTRACT_EVEN_ODD_AND_SAVE, DefaultUseBuffer, <<>>),
           Call("extract_even_odd_and_save", None))

remove_first_page ==
    Finish(__dispatch_action(Self, REMOVE_FIRST_PAGE, DefaultUseBuffer, <<>>),
           Call("remove_first_page", None))

remove_last_page ==
    Finish(__dispatch_action(Self, REMOVE_LAST_PAGE, DefaultUseBuffer, <<>>),
           Call("remove_last_page", None))

remove_pages(page_list) ==
    IF page_list = None
    THEN Raise("ValueError", Call("remove_pages", page_list))
    ELSE Finish(__dispatch_action(Self, REMOVE_PAGES, DefaultUseBuffer, [page_list |-> page_list]),
                Call("remove_pages", page_list))

\* save: the body is `pass`; nothing is handed to self.writer and nothing is
\* raised
save ==
    /\ error' = NoError
    /\ call' = Call("save", None)
    /\ UNCHANGED <<pages, page_length, original_pages, even_pages, odd_pages,
                   last_method, loaded, written>>

Next ==
    \/ \E n \in 0..MaxPages, reader \in {NoError, "FileNotFoundError", "PdfReadError"} :
          load_pdf(n, reader)
    \/ insert_first
    \/ insert_last
    \/ \E page_number \in IntArgs : add_after_page(page_number)
    \/ \E after_page \in OptIntArgs : add_blank(after_page)
    \/ \E page_list \in PageListArgs : extract_pages(page_list)
    \/ \E page_list \in RangeArgs : extract_range(page_list)
    \/ extract_evens
    \/ extract_odds
    \/ extract_even_odd_and_save
    \/ remove_first_page
    \/ remove_last_page
    \/ \E page_list \in PageListArgs : remove_pages(page_list)
    \/ save

Spec == Init /\ [][Next]_vars

-----------------------------------------------------------------------------
\* Properties

InsertOps == {"insert_first", "insert_last", "add_after_page", "add_blank"}
ExtractOps == {"extract_pages", "extract_range", "extract_evens", "extract_odds",
               "extract_even_odd_and_save"}
RemoveOps == {"remove_first_page", "remove_last_page", "remove_pages"}
EditOps == InsertOps \cup ExtractOps \cup RemoveOps

\* a document is loaded and pages is a list
LoadedList == loaded /\ ~pages.none

\* C1: in every reachable state, whether the last operation returned or
\* raised, pages is a sequence and page_length equals len(pages).
C1_PagesAndLengthInSync ==
    /\ ~pages.none
    /\ page_length = Len(pages.items)

\* C2: when an insert, extract or remove operation ends in an error, pages
\* and page_length are what they were before the call.
C2_ErrorLeavesPagesUntouched ==
    [][(call'.op \in EditOps /\ error' # NoError)
         => (pages' = pages /\ page_length' = page_length)]_vars

\* C3: before load_pdf has completed, every insert, extract and remove
\* operation fails and changes nothing (the fields keep the values the
\* constructor gave them); none returns normally.
C3_UnloadedOperationsFail ==
    (~loaded /\ call.op \in EditOps)
        => /\ error # NoError
           /\ pages = PyList(<<>>)
           /\ page_length = 0
           /\ last_method = "None"

\* new is old with one page, not among the pages of old, inserted at the
\* 0-based position pos
InsertedAt(old, new, pos) ==
    /\ Len(new) = Len(old) + 1
    /\ \A i \in 1..Len(old) : new[pos + 1] # old[i]
    /\ \A i \in 1..Len(old) : old[i] = new[IF i <= pos THEN i ELSE i + 1]

\* the call returned normally and left page_length one larger, with a blank
\* page at the 0-based position pos
BlankInsertedAt(pos) ==
    /\ error' = NoError
    /\ ~pages'.none
    /\ page_length' = page_length + 1
    /\ InsertedAt(pages.items, pages'.items, pos)

\* C4: on a loaded document, inserting a blank page at a position in
\* 0..page_length (insert_first: 0, insert_last: page_length, add_after_page
\* and add_blank after page n: n + 1, add_blank with no page: page_length)
\* makes page_length one larger, puts the new page at that position, keeps
\* the pages before it and shifts the others by one.
C4_InsertBlankShifts ==
    [][/\ (LoadedList /\ insert_first) => BlankInsertedAt(0)
       /\ (LoadedList /\ insert_last) => BlankInsertedAt(page_length)
       /\ \A n \in IntArgs :
            (LoadedList /\ n + 1 \in 0..page_length /\ add_after_page(n))
                => BlankInsertedAt(n + 1)
       /\ \A n \in IntArgs :
            (LoadedList /\ n + 1 \in 0..page_length /\ add_blank(PyList(<<n>>)))
                => BlankInsertedAt(n + 1)
       /\ (LoadedList /\ add_blank(None)) => BlankInsertedAt(page_length)]_vars

\* C5: on a loaded document, extract_range(page_list=[start, end]) with
\* 0 <= start <= end < page_length replaces pages with the old pages at
\* positions start..end inclusive, so page_length becomes end - start + 1.
C5_ExtractRangeInclusive ==
    [][\A start, end \in IntArgs :
         (/\ LoadedList
          /\ 0 <= start /\ start <= end /\ end < page_length
          /\ extract_range(PyList(<<start, end>>)))
           => /\ error' = NoError
              /\ pages' = PyList(SubSeq(pages.items, start + 1, end + 1))
              /\ page_length' = end - start + 1]_vars

RECURSIVE PagesAtIndices(_, _)
\* the pages of old at the 0-based positions listed in indices, in the order
\* of indices; an index that is no position of old contributes nothing
PagesAtIndices(old, indices) ==
    IF indices = <<>> THEN <<>>
    ELSE (IF Head(indices) \in 0..(Len(old) - 1)
          THEN <<old[Head(indices) + 1]>> ELSE <<>>)
         \o PagesAtIndices(old, Tail(indices))

\* C6: on a loaded document, extract_pages with a non-empty list of indices
\* replaces pages with the pages at the listed positions, in the order of
\* the list, dropping indices that match no position, without an error.
C6_ExtractPagesInListOrder ==
    [][\A indices \in PageListArgs :
         (/\ LoadedList
          /\ ~indices.none /\ indices.items # <<>>
          /\ extract_pages(indices))
           => /\ error' = NoError
              /\ pages' = PyList(PagesAtIndices(pages.items, indices.items))
              /\ page_length' = Len(pages'.items)]_vars

\* C7: on a loaded document, extract_even_odd_and_save leaves pages and
\* page_length as they were before the call.
C7_EvenOddAndSaveKeepsPages ==
    [][(LoadedList /\ extract_even_odd_and_save)
         => (pages' = pages /\ page_length' = page_length)]_vars

\* C8: on a loaded document, remove_first_page and remove_last_page fail and
\* change nothing when page_length is 0, and otherwise replace pages with
\* all but the first, respectively all but the last, page.
C8_RemoveEndPage ==
    [][(LoadedList /\ (remove_first_page \/ remove_last_page))
         => IF page_length = 0
            THEN /\ error' # NoError
                 /\ pages' = pages
                 /\ page_length' = page_length
                 /\ last_method' = last_method
            ELSE /\ error' = NoError
                 /\ pages' = PyList(IF call'.op = "remove_first_page"
                                    THEN Tail(pages.items)
                                    ELSE SubSeq(pages.items, 1, Len(pages.items) - 1))]_vars

ParityPartition(P, evens, odds) ==
    /\ Len(evens) + Len(odds) = Len(P)
    /\ Len(odds) <= Len(evens)
    /\ Len(evens) <= Len(odds) + 1
    /\ \A i \in 0..(Len(P) - 1) :
          IF i % 2 = 0 THEN evens[(i \div 2) + 1] = P[i + 1]
          ELSE odds[(i \div 2) + 1] = P[i + 1]

\* C10: for every loaded page sequence P, what extract_evens leaves in pages
\* and what extract_odds leaves in pages when applied to the same P
\* partition the positions of P, each in the original order.
C10_EvensAndOddsPartition ==
    [][/\ (LoadedList /\ extract_evens)
           => /\ error' = NoError
              /\ ParityPartition(pages.items, pages'.items, OpExtractOdds(Self).val.items)
       /\ (LoadedList /\ extract_odds)
           => /\ error' = NoError
              /\ ParityPartition(pages.items, OpExtractEvens(Self).val.items, pages'.items)]_vars

\* extract_evens has returned positions 0 and 2 of a three-page file
C10_Witness ==
    /\ call.op = "extract_evens"
    /\ error = NoError
    /\ loaded
    /\ original_pages = PyList(ReaderPages(3))
    /\ pages = PyList(<<ReaderPages(3)[1], ReaderPages(3)[3]>>)

\* C11: every save() on a loaded document either hands the current page
\* list to the writer or raises; in particular load_pdf() followed by save()
\* writes the pages of the source, in the source's order.
C11_SaveWritesOrRaises ==
    [][(loaded /\ save) => (error' # NoError \/ written' = pages)]_vars

====
